---- MODULE Spec2Model ----
(***************************************************************************)
(* Update reconciliation and verification engine of the Stardew Valley mod *)
(* manager front end (component App).  The state variables are the React   *)
(* state cells of App, the two localStorage slots, the wall clock, and the *)
(* asynchronous activities that are in flight (backend invocations, the    *)
(* progress ticker, pending setTimeout callbacks).  An async handler is    *)
(* one action per run-to-completion segment: from the click to its first   *)
(* await, and from the settlement of an awaited promise to the next await. *)
(* A handler reads the state cells it closed over when it was called, so   *)
(* every in-flight record carries the values its continuation captured.    *)
(***************************************************************************)
EXTENDS Integers, Sequences, FiniteSets, Bags

\* ------------------------------------------------------------------ bounds
\* in-flight check_mod_updates invocations
MaxBatches == 2
\* resolver runs (verifyModUpdate, forceUpdateVersion) that have not yet finished,
\* their pending setTimeout callbacks included
MaxCalls == 2
\* in-flight initializeApp / refreshMods runs started from a button
MaxScans == 1
\* in-flight open_url invocations of the step 1 button
MaxOpens == 1
\* steps of the wall clock
MaxTicks == 2

\* ------------------------------------------------------- program constants
\* 60 * 60 * 1000
OneHour == 3600000
\* encodings of the JavaScript null of each cell
NoCheck == -1
NullStr == "<null>"
StartTime == 2 * OneHour
\* the text of a caught error
ErrMsg == "error"

\* ------------------------------------------------------------ data values
ModInfo(id, nm, v, keys) ==
    [folder_name |-> id, name |-> nm, version |-> v, update_keys |-> keys]

UpdateInfo(cur, latest, avail, url) ==
    [current_version |-> cur, latest_version |-> latest,
     update_available |-> avail, download_url |-> url]

NoMod == ModInfo("", "", "", <<>>)
NoInfo == UpdateInfo("", "", FALSE, NullStr)
EmptyMap == [k \in {} |-> NoInfo]

ModA(v) == ModInfo("a", "Mod A", v, <<"Nexus:1">>)
ModB == ModInfo("b", "Mod B", "1.0", <<"Nexus:2">>)
ModC == ModInfo("c", "Mod C", "1.0", <<>>)

\* the contents the Mods folder can have, as scan_mods reports them
Folders == {<<>>, <<ModC>>, <<ModA("1.0"), ModB, ModC>>}

\* the manifest of package id in folder f set to version v
WithVersion(f, id, v) ==
    [i \in 1..Len(f) |-> IF f[i].folder_name = id THEN [f[i] EXCEPT !.version = v] ELSE f[i]]

\* JavaScript truthiness of a string | null cell and of a number | null cell
TruthyStr(s) == s \notin {NullStr, ""}
TruthyNum(n) == n \notin {NoCheck, 0}

RemoveKey(m, k) == [x \in DOMAIN m \ {k} |-> m[x]]

\* a filter that keeps every package
FilterAll(s) == s

RECURSIVE Filter(_)
Filter(s) ==
    IF s = <<>> THEN <<>>
    ELSE IF Len(Head(s).update_keys) > 0
         THEN <<Head(s)>> \o Filter(Tail(s))
         ELSE Filter(Tail(s))

BagAdd(b, x) == b (+) SetToBag({x})
BagDel(b, x) == b (-) SetToBag({x})

\* ------------------------------------------------------------------ state
VARIABLES
    stardewInfo, mods, loading, error,
    updates, lastUpdateCheck, lsUpdates, lsLastCheck,
    checkingUpdates, currentModBeingChecked, updateProgress,
    settings, showApiWarning,
    showUpdateModal, updateModalMod, updateModalInfo, updateStep,
    isVerifying, verificationStatus,
    now, ticks,
    settingsPending, scans, batches, calls, opens,
    disk, ev

storeVars == <<stardewInfo, mods, loading, error>>
cacheVars == <<updates, lastUpdateCheck, lsUpdates, lsLastCheck>>
progVars == <<checkingUpdates, currentModBeingChecked, updateProgress>>
gateVars == <<settings, showApiWarning>>
modalVars == <<showUpdateModal, updateModalMod, updateModalInfo, updateStep>>
phaseVars == <<isVerifying, verificationStatus>>
clockVars == <<now, ticks>>
flightVars == <<settingsPending, scans, batches, calls, opens>>

vars == <<storeVars, cacheVars, progVars, gateVars, modalVars, phaseVars,
          clockVars, flightVars, disk, ev>>

\* the last segment that ran: handler, outcome, package id, the answer of the
\* remote batch query it applied, and the status map it found
EvPre(op, out, id, resp, pre) == [op |-> op, out |-> out, id |-> id, resp |-> resp, pre |-> pre]
Ev(op, out, id, resp) == EvPre(op, out, id, resp, [k \in {} |-> NoInfo])

Progress(c, t) == [current |-> c, total |-> t]

\* what the two localStorage slots can hold when the application starts:
\* nothing (never checked), or what an earlier session saved
SavedMap == [k \in {"a", "b"} |-> UpdateInfo("1.0", "1.2", TRUE, IF k = "a" THEN "url" ELSE NullStr)]
PersistedAtStart ==
    {[map |-> EmptyMap, set |-> FALSE, last |-> NoCheck],
     [map |-> SavedMap, set |-> TRUE, last |-> StartTime - OneHour + 1]}

\* loadPersistedUpdates: an absent slot leaves the cell at its initial value
loadPersistedUpdates(p) ==
    /\ updates = (IF p.set THEN p.map ELSE EmptyMap)
    /\ lastUpdateCheck = (IF p.last # NoCheck THEN p.last ELSE NoCheck)

\* the state after construction and the mount effect, for the slot contents P
\* and the Mods folders F the application can be started with
InitWith(P, F) ==
    /\ stardewInfo = NullStr
    /\ mods = <<>>
    /\ loading = TRUE
    /\ error = NullStr
    /\ \E p \in P :
          /\ lsUpdates = [set |-> p.set, map |-> p.map]
          /\ lsLastCheck = p.last
          /\ loadPersistedUpdates(p)
    /\ checkingUpdates = FALSE
    /\ currentModBeingChecked = ""
    /\ updateProgress = Progress(0, 0)
    /\ settings = NullStr
    /\ showApiWarning = FALSE
    /\ showUpdateModal = FALSE
    /\ updateModalMod = NoMod
    /\ updateModalInfo = NoInfo
    /\ updateStep = 1
    /\ isVerifying = FALSE
    /\ verificationStatus = NullStr
    /\ now = StartTime
    /\ ticks = 0
    /\ settingsPending = TRUE
    /\ scans = SetToBag({[by |-> "init", stage |-> "detect"]})
    /\ batches = EmptyBag
    /\ calls = EmptyBag
    /\ opens = 0
    /\ disk \in F
    /\ ev = Ev("mount", "", "", EmptyMap)

Init == InitWith(PersistedAtStart, Folders)

\* ------------------------------------------------------------ what renders
\* the component returns the loading page, the error page or the main page
MainPage == ~loading /\ error = NullStr /\ stardewInfo = "found"
ErrorPage == ~loading /\ error # NullStr
NotFoundPage == ~loading /\ error = NullStr /\ stardewInfo # "found"
ModalShown == MainPage /\ showUpdateModal /\ updateModalMod # NoMod /\ updateModalInfo # NoInfo

\* ------------------------------------------------------------ environment
\* the user replaces the folder of an installed package by its latest release
InstallUpdate ==
    /\ \E i \in 1..Len(disk) :
          /\ Len(disk[i].update_keys) > 0
          /\ disk[i].version # "1.2"
          /\ disk' = WithVersion(disk, disk[i].folder_name, "1.2")
          /\ ev' = Ev("install", "", disk[i].folder_name, EmptyMap)
    /\ UNCHANGED <<storeVars, cacheVars, progVars, gateVars, modalVars, phaseVars,
                   clockVars, flightVars>>

\* the user adds packages to the Mods folder or removes them from it
ChangeFolder ==
    /\ \E f \in Folders :
          /\ f # disk
          /\ disk' = f
    /\ ev' = Ev("changeFolder", "", "", EmptyMap)
    /\ UNCHANGED <<storeVars, cacheVars, progVars, gateVars, modalVars, phaseVars,
                   clockVars, flightVars>>

\* the user deletes the folder of one package from the Mods folder
RemovePackage ==
    /\ \E i \in 1..Len(disk) :
          /\ disk' = SubSeq(disk, 1, i - 1) \o SubSeq(disk, i + 1, Len(disk))
          /\ ev' = Ev("removePackage", "", disk[i].folder_name, EmptyMap)
    /\ UNCHANGED <<storeVars, cacheVars, progVars, gateVars, modalVars, phaseVars,
                   clockVars, flightVars>>

\* --------------------------------------------------------------- the clock
Tick ==
    /\ ticks < MaxTicks
    /\ now' = now + 1
    /\ ticks' = ticks + 1
    /\ ev' = Ev("tick", "", "", EmptyMap)
    /\ UNCHANGED <<disk, storeVars, cacheVars, progVars, gateVars, modalVars, phaseVars,
                   flightVars>>

\* ----------------------------------------------------------------- settings
LoadSettingsReturn ==
    /\ settingsPending
    /\ settingsPending' = FALSE
    /\ \E r \in {"ok", "failed"}, key \in {NullStr, "key"} :
          /\ settings' = (IF r = "ok" THEN key ELSE settings)
          /\ ev' = Ev("loadSettings", r, "", EmptyMap)
    /\ UNCHANGED <<disk, storeVars, cacheVars, progVars, showApiWarning, modalVars,
                   phaseVars, clockVars, scans, batches, calls, opens>>

saveSettings ==
    /\ MainPage
    /\ \E r \in {"ok", "failed"}, key \in {NullStr, "key"} :
          /\ settings' = (IF r = "ok" THEN key ELSE settings)
          /\ error' = (IF r = "ok" THEN error ELSE ErrMsg)
          /\ ev' = Ev("saveSettings", r, "", EmptyMap)
    /\ UNCHANGED <<disk, stardewInfo, mods, loading, cacheVars, progVars, showApiWarning,
                   modalVars, phaseVars, clockVars, flightVars>>

\* ------------------------------------------------- detection and scanning
\* stardewInfo holds "found" for an answer with found and a mods_path, and
\* "notFound" for any other answer of detect_stardew_valley
\* the Retry button of the error page and the Retry Detection button
initializeApp ==
    /\ ErrorPage \/ NotFoundPage
    /\ BagCardinality(scans) < MaxScans
    /\ loading' = TRUE
    /\ error' = NullStr
    /\ scans' = BagAdd(scans, [by |-> "init", stage |-> "detect"])
    /\ ev' = Ev("initializeApp", "", "", EmptyMap)
    /\ UNCHANGED <<disk, stardewInfo, mods, cacheVars, progVars, gateVars, modalVars,
                   phaseVars, clockVars, settingsPending, batches, calls, opens>>

DetectReturn ==
    /\ \E s \in BagToSet(scans), r \in {"ok", "notFound", "failed"} :
          /\ s.by = "init" /\ s.stage = "detect"
          /\ IF r = "ok"
             THEN /\ stardewInfo' = "found"
                  /\ scans' = BagAdd(BagDel(scans, s), [by |-> "init", stage |-> "scan"])
                  /\ UNCHANGED <<loading, error>>
             ELSE IF r = "notFound"
             THEN /\ stardewInfo' = "notFound"
                  /\ loading' = FALSE
                  /\ scans' = BagDel(scans, s)
                  /\ UNCHANGED error
             ELSE /\ error' = ErrMsg
                  /\ loading' = FALSE
                  /\ scans' = BagDel(scans, s)
                  /\ UNCHANGED stardewInfo
          /\ ev' = Ev("detect", r, "", EmptyMap)
    /\ UNCHANGED <<disk, mods, cacheVars, progVars, gateVars, modalVars, phaseVars,
                   clockVars, settingsPending, batches, calls, opens>>

refreshMods ==
    /\ MainPage
    /\ BagCardinality(scans) < MaxScans
    /\ loading' = TRUE
    /\ scans' = BagAdd(scans, [by |-> "refresh", stage |-> "scan"])
    /\ ev' = Ev("refreshMods", "", "", EmptyMap)
    /\ UNCHANGED <<disk, stardewInfo, mods, error, cacheVars, progVars, gateVars, modalVars,
                   phaseVars, clockVars, settingsPending, batches, calls, opens>>

\* the settlement of scan_mods inside initializeApp or refreshMods
scanSettled(r, list) ==
    /\ mods' = (IF r = "ok" THEN list ELSE mods)
    /\ error' = (IF r = "ok" THEN error ELSE ErrMsg)
    /\ loading' = FALSE

ScanReturn ==
    /\ \E s \in BagToSet(scans), r \in {"ok", "failed"} :
          /\ s.stage = "scan"
          /\ scanSettled(r, disk)
          /\ scans' = BagDel(scans, s)
          /\ ev' = Ev("scan", r, s.by, EmptyMap)
    /\ UNCHANGED <<disk, stardewInfo, cacheVars, progVars, gateVars, modalVars, phaseVars,
                   clockVars, settingsPending, batches, calls, opens>>

\* ------------------------------------------------------ the rate limit gate
\* a gate that also warns when exactly one hour has passed
shouldWarnInclusive ==
    /\ TruthyNum(lastUpdateCheck)
    /\ lastUpdateCheck >= now - OneHour
    /\ TruthyStr(settings)

\* the condition of handleCheckUpdatesClick under which the warning is shown
shouldWarn ==
    /\ TruthyNum(lastUpdateCheck)
    /\ lastUpdateCheck > now - OneHour
    /\ TruthyStr(settings)

\* ------------------------------------------------------- the batch check
\* what check_mod_updates can answer for one record it was sent
StatusOptions(m) ==
    {UpdateInfo(m.version, "1.2", TRUE, "url"),
     IF m.folder_name = "a" THEN UpdateInfo(m.version, m.version, FALSE, "url")
     ELSE UpdateInfo(m.version, "1.2", TRUE, NullStr)}

Eligible(list) == {list[i].folder_name : i \in {j \in 1..Len(list) : Len(list[j].update_keys) > 0}}
RecordOf(list, id) == CHOOSE m \in {list[i] : i \in 1..Len(list)} : m.folder_name = id

\* the answers of the remote batch query: a status for any of the records
\* sent that expose an update-source key
BatchResponses(list) ==
    UNION {[D -> UNION {StatusOptions(RecordOf(list, id)) : id \in D}] : D \in SUBSET Eligible(list)}

WellFormed(list, resp) ==
    \A id \in DOMAIN resp : resp[id] \in StatusOptions(RecordOf(list, id))

\* the finally block of checkForUpdates
resetProgress ==
    /\ checkingUpdates' = FALSE
    /\ currentModBeingChecked' = ""
    /\ updateProgress' = Progress(0, 0)

\* checkForUpdates up to its await: the early returns, or the remote query
\* issued and the first iteration of simulateProgress
checkForUpdates(op) ==
    LET E == Filter(mods) IN
    IF mods = <<>>
    THEN /\ UNCHANGED <<progVars, batches>>
         /\ ev' = Ev(op, "noMods", "", EmptyMap)
    ELSE IF Len(E) = 0
    THEN /\ resetProgress
         /\ UNCHANGED batches
         /\ ev' = Ev(op, "noEligible", "", EmptyMap)
    ELSE /\ BagCardinality(batches) < MaxBatches
         /\ checkingUpdates' = TRUE
         /\ currentModBeingChecked' = E[1].name
         /\ updateProgress' = Progress(1, Len(E))
         /\ batches' = BagAdd(batches, [snap |-> mods, i |-> 1, tdone |-> FALSE, st |-> "pending"])
         /\ ev' = Ev(op, "started", "", EmptyMap)

handleCheckUpdatesClick ==
    /\ MainPage
    /\ ~checkingUpdates /\ Len(mods) # 0
    /\ IF shouldWarn
       THEN /\ showApiWarning' = TRUE
            /\ ev' = Ev("handleCheckUpdatesClick", "warn", "", EmptyMap)
            /\ UNCHANGED <<progVars, batches>>
       ELSE /\ checkForUpdates("handleCheckUpdatesClick")
            /\ UNCHANGED showApiWarning
    /\ UNCHANGED <<disk, storeVars, cacheVars, settings, modalVars, phaseVars, clockVars,
                   settingsPending, scans, calls, opens>>

\* a confirmation that starts the check and leaves the warning open
proceedKeepsWarning ==
    /\ MainPage
    /\ showApiWarning
    /\ showApiWarning' = showApiWarning
    /\ checkForUpdates("proceedWithUpdateCheck")
    /\ UNCHANGED <<disk, storeVars, cacheVars, settings, modalVars, phaseVars, clockVars,
                   settingsPending, scans, calls, opens>>

\* the Check Anyway button of the warning
proceedWithUpdateCheck ==
    /\ MainPage
    /\ showApiWarning
    /\ showApiWarning' = FALSE
    /\ checkForUpdates("proceedWithUpdateCheck")
    /\ UNCHANGED <<disk, storeVars, cacheVars, settings, modalVars, phaseVars, clockVars,
                   settingsPending, scans, calls, opens>>

cancelWarning ==
    /\ MainPage
    /\ showApiWarning
    /\ showApiWarning' = FALSE
    /\ ev' = Ev("cancelWarning", "", "", EmptyMap)
    /\ UNCHANGED <<disk, storeVars, cacheVars, progVars, settings, modalVars, phaseVars,
                   clockVars, flightVars>>

\* a save that writes nothing
savePersistedUpdatesSkipped(updateInfo, timestamp) ==
    UNCHANGED <<lsUpdates, lsLastCheck>>

\* savePersistedUpdates
savePersistedUpdates(updateInfo, timestamp) ==
    /\ lsUpdates' = [set |-> TRUE, map |-> updateInfo]
    /\ lsLastCheck' = timestamp

\* a resolution that gives every package of the store an entry: the answer's
\* status, or an up-to-date status where the answer has none
batchResolvedFillsStore(updateInfo) ==
    LET timestamp == now
        ids == {mods[i].folder_name : i \in 1..Len(mods)}
        filled == [k \in DOMAIN updateInfo \cup ids |->
                      IF k \in DOMAIN updateInfo THEN updateInfo[k]
                      ELSE UpdateInfo("1.0", "1.0", FALSE, NullStr)]
    IN
    /\ updates' = filled
    /\ lastUpdateCheck' = timestamp
    /\ savePersistedUpdates(filled, timestamp)
    /\ resetProgress

\* a resolution that merges the answer into the map it finds
batchResolvedMerge(updateInfo) ==
    LET timestamp == now
        merged == [k \in DOMAIN updateInfo \cup DOMAIN updates |->
                      IF k \in DOMAIN updateInfo THEN updateInfo[k] ELSE updates[k]]
    IN
    /\ updates' = merged
    /\ lastUpdateCheck' = timestamp
    /\ savePersistedUpdates(merged, timestamp)
    /\ resetProgress

\* the code after Promise.all has resolved, and the finally block
batchResolved(updateInfo) ==
    LET timestamp == now IN
    /\ updates' = updateInfo
    /\ lastUpdateCheck' = timestamp
    /\ savePersistedUpdates(updateInfo, timestamp)
    /\ resetProgress

\* a failure path that also drops the cached statuses
batchRejectedClears ==
    /\ error' = ErrMsg
    /\ resetProgress
    /\ updates' = EmptyMap
    /\ UNCHANGED <<lastUpdateCheck, lsUpdates, lsLastCheck>>

\* the catch and finally blocks of checkForUpdates
batchRejected ==
    /\ error' = ErrMsg
    /\ resetProgress
    /\ UNCHANGED cacheVars

\* a timer of simulateProgress fires: the next iteration, or the end of the
\* loop, which resolves Promise.all when the remote query has answered
TickerStep ==
    /\ \E b \in BagToSet(batches) :
          LET E == Filter(b.snap) IN
          /\ ~b.tdone
          /\ IF b.i < Len(E)
             THEN /\ currentModBeingChecked' = E[b.i + 1].name
                  /\ updateProgress' = Progress(b.i + 1, Len(E))
                  /\ batches' = BagAdd(BagDel(batches, b), [b EXCEPT !.i = b.i + 1])
                  /\ ev' = Ev("ticker", "step", "", EmptyMap)
                  /\ UNCHANGED <<checkingUpdates, cacheVars>>
             ELSE IF b.st = "ok"
             THEN /\ \E resp \in BatchResponses(b.snap) :
                        /\ batchResolved(resp)
                        /\ ev' = EvPre("checkForUpdates", "resolved", "", resp, updates)
                  /\ batches' = BagDel(batches, b)
             ELSE /\ batches' = (IF b.st = "pending"
                                 THEN BagAdd(BagDel(batches, b), [b EXCEPT !.tdone = TRUE])
                                 ELSE BagDel(batches, b))
                  /\ ev' = Ev("ticker", "end", "", EmptyMap)
                  /\ UNCHANGED <<progVars, cacheVars>>
    /\ UNCHANGED <<disk, storeVars, gateVars, modalVars, phaseVars, clockVars,
                   settingsPending, scans, calls, opens>>

\* check_mod_updates answers
BatchRemoteOk ==
    /\ \E b \in BagToSet(batches) :
          /\ b.st = "pending"
          /\ IF b.tdone
             THEN /\ \E resp \in BatchResponses(b.snap) :
                        /\ batchResolved(resp)
                        /\ ev' = EvPre("checkForUpdates", "resolved", "", resp, updates)
                  /\ batches' = BagDel(batches, b)
             ELSE /\ batches' = BagAdd(BagDel(batches, b), [b EXCEPT !.st = "ok"])
                  /\ ev' = Ev("check_mod_updates", "ok", "", EmptyMap)
                  /\ UNCHANGED <<progVars, cacheVars>>
    /\ UNCHANGED <<disk, storeVars, gateVars, modalVars, phaseVars, clockVars,
                   settingsPending, scans, calls, opens>>

\* check_mod_updates fails: Promise.all rejects at once
BatchRemoteFail ==
    /\ \E b \in BagToSet(batches) :
          /\ b.st = "pending"
          /\ batchRejected
          /\ batches' = (IF b.tdone THEN BagDel(batches, b)
                         ELSE BagAdd(BagDel(batches, b), [b EXCEPT !.st = "rejected"]))
          /\ ev' = Ev("checkForUpdates", "rejected", "", EmptyMap)
    /\ UNCHANGED <<disk, stardewInfo, mods, loading, gateVars, modalVars, phaseVars,
                   clockVars, settingsPending, scans, calls, opens>>

\* ------------------------------------------------ the per-package workflow
\* a button that is rendered for every cached status with a download reference
startUpdateProcessAnyStatus ==
    /\ MainPage
    /\ \E i \in 1..Len(mods) :
          LET mod == mods[i] IN
          /\ mod.folder_name \in DOMAIN updates
          /\ LET updateInfo == updates[mod.folder_name] IN
             /\ TruthyStr(updateInfo.download_url)
             /\ updateModalMod' = mod
             /\ updateModalInfo' = updateInfo
             /\ updateStep' = 1
             /\ showUpdateModal' = TRUE
             /\ ev' = Ev("startUpdateProcess", "", mod.folder_name, EmptyMap)
    /\ UNCHANGED <<disk, storeVars, cacheVars, progVars, gateVars, phaseVars, clockVars,
                   flightVars>>

\* the Update Available button of a mod card
startUpdateProcess ==
    /\ MainPage
    /\ \E i \in 1..Len(mods) :
          LET mod == mods[i] IN
          /\ mod.folder_name \in DOMAIN updates
          /\ LET updateInfo == updates[mod.folder_name] IN
             /\ TruthyStr(updateInfo.download_url)
             /\ updateInfo.update_available
             /\ updateModalMod' = mod
             /\ updateModalInfo' = updateInfo
             /\ updateStep' = 1
             /\ showUpdateModal' = TRUE
             /\ ev' = Ev("startUpdateProcess", "", mod.folder_name, EmptyMap)
    /\ UNCHANGED <<disk, storeVars, cacheVars, progVars, gateVars, phaseVars, clockVars,
                   flightVars>>

\* a close that hides the modal and keeps its target
closeModalKeepsTarget ==
    /\ showUpdateModal' = FALSE
    /\ updateModalMod' = updateModalMod
    /\ updateModalInfo' = NoInfo
    /\ updateStep' = 1
    /\ isVerifying' = FALSE
    /\ verificationStatus' = NullStr

\* the body of closeUpdateModal
closeModal ==
    /\ showUpdateModal' = FALSE
    /\ updateModalMod' = NoMod
    /\ updateModalInfo' = NoInfo
    /\ updateStep' = 1
    /\ isVerifying' = FALSE
    /\ verificationStatus' = NullStr

\* the close button and the Cancel button of the modal
closeUpdateModal ==
    /\ ModalShown
    /\ closeModal
    /\ ev' = Ev("closeUpdateModal", "", "", EmptyMap)
    /\ UNCHANGED <<disk, storeVars, cacheVars, progVars, gateVars, clockVars, flightVars>>

\* step 1 button: open_url is invoked
openDownloadPage ==
    /\ ModalShown
    /\ opens < MaxOpens
    /\ opens' = opens + 1
    /\ ev' = Ev("openDownloadPage", "", updateModalMod.folder_name, EmptyMap)
    /\ UNCHANGED <<disk, storeVars, cacheVars, progVars, gateVars, modalVars, phaseVars,
                   clockVars, settingsPending, scans, batches, calls>>

\* the step the step 1 button sets once open_url has succeeded
stepAfterDownload == 2

\* open_url settles
OpenUrlReturn ==
    /\ opens > 0
    /\ opens' = opens - 1
    /\ \E r \in {"ok", "failed"} :
          /\ updateStep' = (IF r = "ok" THEN stepAfterDownload ELSE updateStep)
          /\ ev' = Ev("open_url", r, "", EmptyMap)
    /\ UNCHANGED <<disk, storeVars, cacheVars, progVars, gateVars, showUpdateModal,
                   updateModalMod, updateModalInfo, phaseVars, clockVars,
                   settingsPending, scans, batches, calls>>

\* step 2 button Open Mods Folder: open_folder is invoked, nothing is set
openModsFolder ==
    /\ ModalShown
    /\ ev' = Ev("openModsFolder", "", updateModalMod.folder_name, EmptyMap)
    /\ UNCHANGED <<disk, storeVars, cacheVars, progVars, gateVars, modalVars, phaseVars,
                   clockVars, flightVars>>

\* a confirmation button that is enabled at every step
confirmInstalledAnyStep ==
    /\ ModalShown
    /\ updateStep' = 3
    /\ ev' = Ev("confirmInstalled", "", updateModalMod.folder_name, EmptyMap)
    /\ UNCHANGED <<disk, storeVars, cacheVars, progVars, gateVars, showUpdateModal,
                   updateModalMod, updateModalInfo, phaseVars, clockVars, flightVars>>

\* step 2 button I've installed it
confirmInstalled ==
    /\ ModalShown
    /\ ~(updateStep < 2)
    /\ updateStep' = 3
    /\ ev' = Ev("confirmInstalled", "", updateModalMod.folder_name, EmptyMap)
    /\ UNCHANGED <<disk, storeVars, cacheVars, progVars, gateVars, showUpdateModal,
                   updateModalMod, updateModalInfo, phaseVars, clockVars, flightVars>>

\* ------------------------------------------------ the verification resolver
\* a resolver run: the record and the version it closed over, where it is
\* (awaiting the backend, awaiting scan_mods, waiting for its timers) and the
\* setTimeout callbacks it has registered, in the order they fire
Call(kind, mod, ver, pc, q) == [kind |-> kind, mod |-> mod, ver |-> ver, pc |-> pc, q |-> q]

\* the timers of a resolver run that succeeded, and of one that did not
SuccessTimers == <<"close", "idle">>
FailureTimers == <<"idle", "clearStatus">>

\* Auto-Verify button, up to the await of the single check
verifyModUpdate ==
    /\ ModalShown
    /\ ~(updateStep < 3 \/ isVerifying)
    /\ BagCardinality(calls) < MaxCalls
    /\ isVerifying' = TRUE
    /\ verificationStatus' = "Checking mod version..."
    /\ calls' = BagAdd(calls, Call("verify", updateModalMod, "", "invoke", <<>>))
    /\ ev' = Ev("verifyModUpdate", "", updateModalMod.folder_name, EmptyMap)
    /\ UNCHANGED <<disk, storeVars, cacheVars, progVars, gateVars, modalVars, clockVars,
                   settingsPending, scans, batches, opens>>

\* a Force-Override that reads the version from the status map at the click
forceUpdateVersionLive ==
    /\ ModalShown
    /\ BagCardinality(calls) < MaxCalls
    /\ \E button \in {"force", "test"} :
          /\ button = "force" => ~(updateStep < 3 \/ isVerifying)
          /\ ev' = Ev("forceUpdateVersion", button, updateModalMod.folder_name, EmptyMap)
    /\ isVerifying' = TRUE
    /\ verificationStatus' = "Updating manifest version..."
    /\ calls' = BagAdd(calls, Call("force", updateModalMod,
                                   IF updateModalMod.folder_name \in DOMAIN updates
                                   THEN updates[updateModalMod.folder_name].latest_version
                                   ELSE updateModalInfo.latest_version, "invoke", <<>>))
    /\ UNCHANGED <<disk, storeVars, cacheVars, progVars, gateVars, modalVars, clockVars,
                   settingsPending, scans, batches, opens>>

\* Force Update Version button and the always enabled TEST button, up to the
\* await of the manifest write
forceUpdateVersion ==
    /\ ModalShown
    /\ BagCardinality(calls) < MaxCalls
    /\ \E button \in {"force", "test"} :
          /\ button = "force" => ~(updateStep < 3 \/ isVerifying)
          /\ ev' = Ev("forceUpdateVersion", button, updateModalMod.folder_name, EmptyMap)
    /\ isVerifying' = TRUE
    /\ verificationStatus' = "Updating manifest version..."
    /\ calls' = BagAdd(calls, Call("force", updateModalMod,
                                   updateModalInfo.latest_version, "invoke", <<>>))
    /\ UNCHANGED <<disk, storeVars, cacheVars, progVars, gateVars, modalVars, clockVars,
                   settingsPending, scans, batches, opens>>

\* an update that empties the map instead of deleting one key
removeFromUpdatesClears(id) ==
    /\ lsUpdates' = [set |-> TRUE, map |-> EmptyMap]
    /\ updates' = EmptyMap

\* an update that writes the map it found to the slot and installs the copy
removeFromUpdatesPersistsOld(id) ==
    LET newUpdates == RemoveKey(updates, id) IN
    /\ lsUpdates' = [set |-> TRUE, map |-> updates]
    /\ updates' = newUpdates

\* the functional update of both resolvers: the key is deleted from a copy of
\* the latest map, the copy is written to the mod-updates slot and installed
removeFromUpdates(id) ==
    LET newUpdates == RemoveKey(updates, id) IN
    /\ lsUpdates' = [set |-> TRUE, map |-> newUpdates]
    /\ updates' = newUpdates

\* a resolver that drops the answer when its workflow is no longer open
verifySucceededIfOpen(c) ==
    IF showUpdateModal /\ updateModalMod.folder_name = c.mod.folder_name
    THEN /\ verificationStatus' = "Refreshing mod list..."
         /\ removeFromUpdates(c.mod.folder_name)
         /\ loading' = TRUE
         /\ calls' = BagAdd(BagDel(calls, c), [c EXCEPT !.pc = "refresh"])
    ELSE /\ calls' = BagDel(calls, c)
         /\ UNCHANGED <<verificationStatus, updates, lsUpdates, loading>>

\* verifyModUpdate after the single check answered update_available = false,
\* up to the await of refreshMods
verifySucceeded(c) ==
    /\ verificationStatus' = "Refreshing mod list..."
    /\ removeFromUpdates(c.mod.folder_name)
    /\ loading' = TRUE
    /\ calls' = BagAdd(BagDel(calls, c), [c EXCEPT !.pc = "refresh"])

\* a resolver that takes every answer of the single check for a success
verifyFailedAsSuccess(c, r) == verifySucceeded(c)

\* verifyModUpdate after the single check answered update_available = true
\* (the else branch) or failed (the catch block), and the finally block
verifyFailed(c, r) ==
    /\ verificationStatus' = (IF r = "outdated" THEN "Update not detected"
                              ELSE "Verification failed")
    /\ calls' = BagAdd(BagDel(calls, c), [c EXCEPT !.pc = "timers", !.q = FailureTimers])
    /\ UNCHANGED <<updates, lsUpdates, loading>>

\* the single check settles
VerifyReturn ==
    /\ \E c \in BagToSet(calls), r \in {"uptodate", "outdated", "failed"} :
          /\ c.kind = "verify" /\ c.pc = "invoke"
          /\ IF r = "uptodate" THEN verifySucceeded(c) ELSE verifyFailed(c, r)
          /\ ev' = EvPre("verifyReturn", r, c.mod.folder_name, EmptyMap, updates)
    /\ UNCHANGED <<disk, stardewInfo, mods, error, lastUpdateCheck, lsLastCheck, progVars,
                   gateVars, modalVars, isVerifying, clockVars, settingsPending, scans,
                   batches, opens>>

\* a success path that takes a key that is no longer cached for a failure
forceSucceededNeedsKey(c) ==
    IF c.mod.folder_name \in DOMAIN updates
    THEN /\ verificationStatus' = "Manifest updated, refreshing mod list..."
         /\ disk' = WithVersion(disk, c.mod.folder_name, c.ver)
         /\ removeFromUpdates(c.mod.folder_name)
         /\ loading' = TRUE
         /\ calls' = BagAdd(BagDel(calls, c), [c EXCEPT !.pc = "refresh"])
    ELSE /\ verificationStatus' = "Failed to update manifest version"
         /\ disk' = WithVersion(disk, c.mod.folder_name, c.ver)
         /\ lsUpdates' = [set |-> FALSE, map |-> EmptyMap]
         /\ calls' = BagAdd(BagDel(calls, c), [c EXCEPT !.pc = "timers", !.q = <<"idle", "clearStatus">>])
         /\ UNCHANGED <<updates, loading>>

\* a success path that installs the new map without writing it to the slot
forceSucceededNoPersist(c) ==
    /\ verificationStatus' = "Manifest updated, refreshing mod list..."
    /\ disk' = WithVersion(disk, c.mod.folder_name, c.ver)
    /\ updates' = RemoveKey(updates, c.mod.folder_name)
    /\ lsUpdates' = lsUpdates
    /\ loading' = TRUE
    /\ calls' = BagAdd(BagDel(calls, c), [c EXCEPT !.pc = "refresh"])

\* forceUpdateVersion after update_manifest_version succeeded (the backend has
\* written the version into the manifest), up to the await of refreshMods
forceSucceeded(c) ==
    /\ verificationStatus' = "Manifest updated, refreshing mod list..."
    /\ disk' = WithVersion(disk, c.mod.folder_name, c.ver)
    /\ removeFromUpdates(c.mod.folder_name)
    /\ loading' = TRUE
    /\ calls' = BagAdd(BagDel(calls, c), [c EXCEPT !.pc = "refresh"])

\* a resolver that goes on as if the manifest write had succeeded
forceFailedAsSuccess(c) == forceSucceeded(c)

\* the catch block of forceUpdateVersion, and the finally block
forceFailed(c) ==
    /\ verificationStatus' = "Failed to update manifest version"
    /\ calls' = BagAdd(BagDel(calls, c), [c EXCEPT !.pc = "timers", !.q = FailureTimers])
    /\ UNCHANGED <<updates, lsUpdates, loading, disk>>

\* update_manifest_version settles
ForceReturn ==
    /\ \E c \in BagToSet(calls), r \in {"ok", "failed"} :
          /\ c.kind = "force" /\ c.pc = "invoke"
          /\ IF r = "ok" THEN forceSucceeded(c) ELSE forceFailed(c)
          /\ ev' = EvPre("forceReturn", r, c.mod.folder_name, EmptyMap, updates)
    /\ UNCHANGED <<stardewInfo, mods, error, lastUpdateCheck, lsLastCheck, progVars,
                   gateVars, modalVars, isVerifying, clockVars, settingsPending, scans,
                   batches, opens>>

\* scan_mods of the refreshMods awaited by a resolver settles; the resolver
\* goes on to register its timers
CallScanReturn ==
    /\ \E c \in BagToSet(calls), r \in {"ok", "failed"} :
          /\ c.pc = "refresh"
          /\ scanSettled(r, disk)
          /\ verificationStatus' = (IF c.kind = "force" THEN "Success! Version updated."
                                    ELSE verificationStatus)
          /\ calls' = BagAdd(BagDel(calls, c),
                             [c EXCEPT !.pc = "timers", !.q = SuccessTimers])
          /\ ev' = Ev("callScan", r, c.mod.folder_name, EmptyMap)
    /\ UNCHANGED <<disk, stardewInfo, cacheVars, progVars, gateVars, modalVars, isVerifying,
                   clockVars, settingsPending, scans, batches, opens>>

\* the next setTimeout callback of a resolver run fires
TimerFire ==
    /\ \E c \in BagToSet(calls) :
          /\ c.pc = "timers"
          /\ LET t == Head(c.q) IN
             /\ IF t = "close"
                THEN closeModal
                ELSE /\ isVerifying' = (IF t = "idle" THEN FALSE ELSE isVerifying)
                     /\ verificationStatus' = (IF t = "clearStatus" THEN NullStr
                                               ELSE verificationStatus)
                     /\ UNCHANGED modalVars
             /\ ev' = Ev("timer", t, c.mod.folder_name, EmptyMap)
          /\ calls' = (IF Len(c.q) = 1 THEN BagDel(calls, c)
                       ELSE BagAdd(BagDel(calls, c), [c EXCEPT !.q = Tail(c.q)]))
    /\ UNCHANGED <<disk, storeVars, cacheVars, progVars, gateVars, clockVars,
                   settingsPending, scans, batches, opens>>

\* ------------------------------------------------------------ specification
Next ==
    \/ Tick
    \/ InstallUpdate
    \/ ChangeFolder
    \/ RemovePackage
    \/ LoadSettingsReturn
    \/ saveSettings
    \/ initializeApp
    \/ DetectReturn
    \/ refreshMods
    \/ ScanReturn
    \/ handleCheckUpdatesClick
    \/ proceedWithUpdateCheck
    \/ cancelWarning
    \/ TickerStep
    \/ BatchRemoteOk
    \/ BatchRemoteFail
    \/ startUpdateProcess
    \/ closeUpdateModal
    \/ openDownloadPage
    \/ OpenUrlReturn
    \/ openModsFolder
    \/ confirmInstalled
    \/ verifyModUpdate
    \/ forceUpdateVersion
    \/ VerifyReturn
    \/ ForceReturn
    \/ CallScanReturn
    \/ TimerFire

Spec == Init /\ [][Next]_vars

\* The application is checked in parts; each leaves out the buttons and the
\* changes of the environment that the other parts are about.
Startup == DetectReturn \/ ScanReturn
BatchCheck == handleCheckUpdatesClick \/ TickerStep \/ BatchRemoteOk \/ BatchRemoteFail
Workflow ==
    \/ startUpdateProcess \/ closeUpdateModal \/ openDownloadPage \/ OpenUrlReturn
    \/ openModsFolder \/ confirmInstalled
Resolver ==
    \/ verifyModUpdate \/ forceUpdateVersion \/ VerifyReturn \/ ForceReturn
    \/ CallScanReturn \/ TimerFire

\* the rate limit gate: the clock, the credential, the warning, the batch check
NextGate ==
    \/ Startup \/ initializeApp \/ LoadSettingsReturn \/ Tick
    \/ BatchCheck \/ proceedWithUpdateCheck \/ cancelWarning
SpecGate == Init /\ [][NextGate]_vars

\* the batch check over a Mods folder that changes
NextBatch ==
    \/ Startup \/ initializeApp \/ LoadSettingsReturn \/ refreshMods \/ ChangeFolder
    \/ BatchCheck \/ proceedWithUpdateCheck
SpecBatch == Init /\ [][NextBatch]_vars

\* the per-package workflow and the verification resolver
NextFlow == Startup \/ InstallUpdate \/ Workflow \/ Resolver
SpecFlow == Init /\ [][NextFlow]_vars

\* the workflow and the resolver when an earlier session has saved a status
\* with a download reference for two installed packages
SavedBoth == [k \in {"a", "b"} |-> UpdateInfo("1.0", "1.2", TRUE, "url")]
PersistedBoth == {[map |-> SavedBoth, set |-> TRUE, last |-> StartTime - OneHour + 1]}
InitTwo == InitWith(PersistedBoth, {<<ModA("1.0"), ModB, ModC>>})
NextTwo ==
    \/ Startup \/ startUpdateProcess \/ closeUpdateModal \/ openDownloadPage
    \/ OpenUrlReturn \/ confirmInstalled \/ Resolver
SpecTwo == InitTwo /\ [][NextTwo]_vars

\* Auto-Verify over a store that is refreshed while a workflow is open
NextVerify ==
    \/ Startup \/ InstallUpdate \/ refreshMods \/ Workflow
    \/ verifyModUpdate \/ VerifyReturn \/ CallScanReturn \/ TimerFire
SpecVerify == Init /\ [][NextVerify]_vars

\* the Update Available button over every kind of cached status: an earlier
\* session has saved, for each of two installed packages, a status with or
\* without an update and with a download reference, an empty one or none
SavedStatuses ==
    {UpdateInfo("1.0", "1.2", TRUE, "url"), UpdateInfo("1.0", "1.2", TRUE, ""),
     UpdateInfo("1.0", "1.2", TRUE, NullStr), UpdateInfo("1.0", "1.0", FALSE, "url")}
PersistedMixed ==
    {[map |-> m, set |-> TRUE, last |-> StartTime - OneHour + 1] :
        m \in [{"a", "b"} -> SavedStatuses]}
InitMixed == InitWith(PersistedMixed, {<<ModA("1.0"), ModB, ModC>>})
NextStart == Startup \/ BatchCheck \/ startUpdateProcess \/ closeUpdateModal
SpecStart == InitMixed /\ [][NextStart]_vars

\* the batch check over a Mods folder that loses packages between two checks
InitFull == InitWith(PersistedAtStart, {<<ModA("1.0"), ModB, ModC>>})
NextTotal == Startup \/ initializeApp \/ RemovePackage \/ BatchCheck
SpecTotal == InitFull /\ [][NextTotal]_vars

\* the batch check together with the workflow and the resolver, over a Mods
\* folder with one package that exposes an update-source key
InitCache == InitWith(PersistedAtStart, {<<ModA("1.0"), ModC>>})
NextCache ==
    \/ Startup \/ BatchCheck \/ startUpdateProcess \/ closeUpdateModal \/ openDownloadPage
    \/ OpenUrlReturn \/ confirmInstalled \/ Resolver
SpecCache == InitCache /\ [][NextCache]_vars

\* the workflow and the resolver when every external call of the resolver
\* answers and every timer it has registered fires
FairFlow ==
    /\ WF_vars(VerifyReturn)
    /\ WF_vars(ForceReturn)
    /\ WF_vars(CallScanReturn)
    /\ WF_vars(TimerFire /\ ev'.out = "close")
    /\ WF_vars(TimerFire /\ ev'.out = "idle")
    /\ WF_vars(TimerFire /\ ev'.out = "clearStatus")
SpecLive == Init /\ [][NextFlow]_vars /\ FairFlow

\* ==================================================================== claims

\* -------------------------------------------------------------------- C1
\* C1: a click on Check Updates shows the warning instead of starting a batch
\* check exactly when a last check is recorded, a credential is configured
\* and fewer than 3,600,000 ms have passed since that check; without a
\* credential it never warns.
C1_RateGate ==
    ev.op = "handleCheckUpdatesClick" =>
        /\ ev.out = "warn" <=>
              /\ lastUpdateCheck # NoCheck
              /\ settings # NullStr
              /\ now - lastUpdateCheck < 3600000
        /\ ev.out = "warn" => showApiWarning
        /\ ev.out # "warn" => ev.out \in {"started", "noEligible"}
        /\ settings = NullStr => ev.out # "warn"

\* the gate has warned on a click
C1_Witness ==
    /\ ev.op = "handleCheckUpdatesClick"
    /\ ev.out = "warn"
    /\ now - lastUpdateCheck = OneHour - 1
    /\ BagCardinality(batches) = 0

\* -------------------------------------------------------------------- C2
\* C2: when a batch check resolves, the status map is exactly the answer of
\* the remote query (a key cached before and missing from the answer is gone)
\* and the last-check timestamp is the time of the resolution.
C2_ReplaceNotMerge ==
    (ev.op = "checkForUpdates" /\ ev.out = "resolved") =>
        /\ updates = ev.resp
        /\ \A k \in DOMAIN ev.pre \ DOMAIN ev.resp : k \notin DOMAIN updates
        /\ lastUpdateCheck = now

\* a batch check has resolved, later than it started, with an answer that
\* lacks a key that was cached
C2_Witness ==
    /\ ev.op = "checkForUpdates" /\ ev.out = "resolved"
    /\ \E k \in DOMAIN ev.pre : k \notin DOMAIN ev.resp
    /\ DOMAIN ev.resp # {}
    /\ now > StartTime

\* -------------------------------------------------------------------- C3
\* C3: when the remote batch query fails, the status map, the last-check
\* timestamp and both persisted slots are what they were, and the error cell
\* holds the failure; the steps of a check before its query is answered (the
\* start, the ticker) write none of the four either.
C3_FailureLeavesCache ==
    [][/\ (ev'.op = "checkForUpdates" /\ ev'.out = "rejected") =>
             /\ updates' = updates
             /\ lastUpdateCheck' = lastUpdateCheck
             /\ lsUpdates' = lsUpdates
             /\ lsLastCheck' = lsLastCheck
             /\ error' # NullStr
       /\ ev'.op \in {"handleCheckUpdatesClick", "proceedWithUpdateCheck", "ticker",
                      "check_mod_updates"} =>
             /\ updates' = updates
             /\ lastUpdateCheck' = lastUpdateCheck
             /\ lsUpdates' = lsUpdates
             /\ lsLastCheck' = lsLastCheck]_vars

\* a batch check has failed while statuses were cached
C3_Witness ==
    /\ ev.op = "checkForUpdates" /\ ev.out = "rejected"
    /\ DOMAIN updates # {}
    /\ lastUpdateCheck # NoCheck
    /\ error # NullStr

\* -------------------------------------------------------------------- C4
\* C4: once every batch check that was started has failed and returned, the
\* progress counter is (0,0), the current-package name is empty and the
\* checking flag is false, until the next batch check starts.
C4_ProgressDiscarded ==
    (\A b \in BagToSet(batches) : b.st = "rejected") =>
        /\ updateProgress = Progress(0, 0)
        /\ currentModBeingChecked = ""
        /\ ~checkingUpdates

\* -------------------------------------------------------------------- C5
\* C5: checkForUpdates on an empty store, or on a store in which no package
\* has an update-source key, issues no remote query and leaves the status
\* map, the last-check timestamp and both persisted slots as they were.
C5_NothingToCheck ==
    [][(/\ ev'.op \in {"handleCheckUpdatesClick", "proceedWithUpdateCheck"}
        /\ ev'.out # "warn"
        /\ \/ Len(mods) = 0
           \/ \A i \in 1..Len(mods) : Len(mods[i].update_keys) = 0) =>
          /\ batches' = batches
          /\ updates' = updates
          /\ lastUpdateCheck' = lastUpdateCheck
          /\ lsUpdates' = lsUpdates
          /\ lsLastCheck' = lsLastCheck]_vars

\* checkForUpdates has run on an empty store while statuses were cached
C5_Witness ==
    /\ ev.op = "proceedWithUpdateCheck" /\ ev.out = "noMods"
    /\ Len(mods) = 0
    /\ DOMAIN updates # {}

\* checkForUpdates has run on a store without any update-source key
C5_WitnessNoKeys ==
    /\ ev.op = "handleCheckUpdatesClick" /\ ev.out = "noEligible"
    /\ Len(mods) > 0
    /\ DOMAIN updates # {}

\* ------------------------------------------------------- C6 to C9: helpers
\* scan_mods invocations in flight: a refresh of the Package Record Store
\* that has been requested and has not yet answered
RefreshCount ==
    BagCardinality(scans)
    + BagCardinality([c \in {x \in BagToSet(calls) : x.pc = "refresh"} |-> calls[c]])

\* single checks in flight
SingleCheckCount ==
    BagCardinality([c \in {x \in BagToSet(calls) : x.kind = "verify" /\ x.pc = "invoke"}
                       |-> calls[c]])

\* the map m without key id, every other key with its value
Without(m, id, n) ==
    /\ DOMAIN n = DOMAIN m \ {id}
    /\ \A k \in DOMAIN n : n[k] = m[k]

\* -------------------------------------------------------------------- C6
\* C6 as stated: when Auto-Verify gets update_available = false, exactly one
\* key, the target's, is removed from the status map; the rest of the map and
\* the timestamp are unchanged, the new map is persisted and one refresh of
\* the store is requested.
C6_ExactlyOneKey ==
    [][(ev'.op = "verifyReturn" /\ ev'.out = "uptodate") =>
          /\ ev'.id \in DOMAIN updates
          /\ Without(updates, ev'.id, updates')
          /\ lastUpdateCheck' = lastUpdateCheck
          /\ lsUpdates' = [set |-> TRUE, map |-> updates']
          /\ lsLastCheck' = lsLastCheck
          /\ RefreshCount' = RefreshCount + 1]_vars

\* C6 amended: when Auto-Verify gets update_available = false, the status map
\* becomes the map it finds without the key of the package that was the
\* target when Auto-Verify was clicked (that key is removed if it is still
\* cached; no other key is removed or changed), the timestamp is unchanged,
\* the new map is persisted and one refresh of the store is requested.
C6_TargetKeyRemoved ==
    [][(ev'.op = "verifyReturn" /\ ev'.out = "uptodate") =>
          /\ Without(updates, ev'.id, updates')
          /\ ev'.id \notin DOMAIN updates'
          /\ lastUpdateCheck' = lastUpdateCheck
          /\ lsUpdates' = [set |-> TRUE, map |-> updates']
          /\ lsLastCheck' = lsLastCheck
          /\ loading'
          /\ RefreshCount' = RefreshCount + 1]_vars

\* Auto-Verify has succeeded for a cached target while another key was cached
C6_Witness ==
    /\ ev.op = "verifyReturn" /\ ev.out = "uptodate"
    /\ ev.id \in DOMAIN ev.pre
    /\ ev.id \notin DOMAIN updates
    /\ DOMAIN updates # {}
    /\ lsUpdates.map = updates
    /\ RefreshCount = 1

\* -------------------------------------------------------------------- C7
\* C7: when Auto-Verify gets update_available = true, or the single check
\* fails, the status map and the persisted slots are unchanged, no refresh is
\* requested, the workflow keeps its target, snapshot and step, and none of
\* the timers the run registers closes the workflow.
C7_FailureKeepsWorkflow ==
    [][(ev'.op = "verifyReturn" /\ ev'.out \in {"outdated", "failed"}) =>
          /\ updates' = updates
          /\ lastUpdateCheck' = lastUpdateCheck
          /\ lsUpdates' = lsUpdates
          /\ lsLastCheck' = lsLastCheck
          /\ RefreshCount' = RefreshCount
          /\ loading' = loading
          /\ UNCHANGED <<showUpdateModal, updateModalMod, updateModalInfo, updateStep>>
          /\ \A c \in BagToSet(calls') :
                c \notin BagToSet(calls) => \A i \in 1..Len(c.q) : c.q[i] # "close"]_vars

\* Auto-Verify has reported a package as still outdated in an open workflow
C7_Witness ==
    /\ ev.op = "verifyReturn" /\ ev.out = "outdated"
    /\ showUpdateModal
    /\ updateModalMod.folder_name = ev.id
    /\ updateStep = 3
    /\ ev.id \in DOMAIN updates

\* -------------------------------------------------------------------- C8
\* C8 as stated: when the manifest write of Force-Override succeeds, exactly
\* the target's key is removed from the status map and the new map is
\* persisted; no single check is issued, every other key and the timestamp
\* are unchanged.
C8_ExactlyOneKey ==
    [][(ev'.op = "forceReturn" /\ ev'.out = "ok") =>
          /\ ev'.id \in DOMAIN updates
          /\ Without(updates, ev'.id, updates')
          /\ lsUpdates' = [set |-> TRUE, map |-> updates']
          /\ lastUpdateCheck' = lastUpdateCheck
          /\ lsLastCheck' = lsLastCheck
          /\ SingleCheckCount' = SingleCheckCount]_vars

\* C8 amended: when the manifest write of Force-Override succeeds, the status
\* map becomes the map it finds without the key of the package that was the
\* target when Force-Override was clicked (that key is removed if it is still
\* cached; no other key is removed or changed) and the new map is persisted,
\* whatever the installed version is; no step of a Force-Override run issues a
\* single check, and the timestamp is unchanged.
C8_TargetKeyRemoved ==
    [][/\ (ev'.op = "forceReturn" /\ ev'.out = "ok") =>
             /\ Without(updates, ev'.id, updates')
             /\ ev'.id \notin DOMAIN updates'
             /\ lsUpdates' = [set |-> TRUE, map |-> updates']
             /\ lastUpdateCheck' = lastUpdateCheck
             /\ lsLastCheck' = lsLastCheck
       /\ ev'.op \in {"forceUpdateVersion", "forceReturn"} =>
             SingleCheckCount' = SingleCheckCount]_vars

\* Force-Override has succeeded for a cached target whose installed version
\* was not the latest one, while another key was cached
C8_Witness ==
    /\ ev.op = "forceReturn" /\ ev.out = "ok"
    /\ ev.id \in DOMAIN ev.pre
    /\ ev.id \notin DOMAIN updates
    /\ DOMAIN updates # {}
    /\ lsUpdates.map = updates
    /\ \E i \in 1..Len(mods) : mods[i].folder_name = ev.id /\ mods[i].version # "1.2"

\* -------------------------------------------------------------------- C9
\* C9: when the manifest write of Force-Override fails, the status map, the
\* persisted slots, the Package Record Store, the manifests and the
\* workflow's target, snapshot and step are unchanged and no refresh is
\* requested.
C9_FailureLeavesState ==
    [][(ev'.op = "forceReturn" /\ ev'.out = "failed") =>
          /\ updates' = updates
          /\ lastUpdateCheck' = lastUpdateCheck
          /\ lsUpdates' = lsUpdates
          /\ lsLastCheck' = lsLastCheck
          /\ mods' = mods
          /\ disk' = disk
          /\ UNCHANGED <<showUpdateModal, updateModalMod, updateModalInfo, updateStep>>
          /\ RefreshCount' = RefreshCount
          /\ loading' = loading]_vars

\* the manifest write has failed in an open workflow at step 3
C9_Witness ==
    /\ ev.op = "forceReturn" /\ ev.out = "failed"
    /\ showUpdateModal
    /\ updateModalMod.folder_name = ev.id
    /\ updateStep = 3
    /\ ev.id \in DOMAIN updates

\* ------------------------------------------------------------------- C10
\* C10: while a workflow is open, no step other than the start of a workflow
\* lowers updateStep.
C10_StepMonotone ==
    [][(showUpdateModal /\ showUpdateModal' /\ ev'.op # "startUpdateProcess") =>
          updateStep' >= updateStep]_vars

\* ------------------------------------------------------------------- C11
\* C11: a run of Auto-Verify or of Force-Override is started only at step 3
\* and only while no run is marked as running (isVerifying false).
C11_ResolverGated ==
    [][ev'.op \in {"verifyModUpdate", "forceUpdateVersion"} =>
          /\ updateStep = 3
          /\ ~isVerifying]_vars

\* ------------------------------------------------------------------- C12
\* C12: right after startUpdateProcess the step is 1, isVerifying is false,
\* there is no verification status, and the target and the snapshot are those
\* of the package that was started.
C12_StartIsFresh ==
    ev.op = "startUpdateProcess" =>
        /\ updateStep = 1
        /\ ~isVerifying
        /\ verificationStatus = NullStr
        /\ showUpdateModal
        /\ updateModalMod.folder_name = ev.id
        /\ updateModalInfo = updates[ev.id]

\* ------------------------------------------------------------------- C13
\* C13: the record Auto-Verify sends to the single check is the record the
\* Package Record Store holds for the target when Auto-Verify is clicked.
C13_SendsCurrentRecord ==
    [][ev'.op = "verifyModUpdate" =>
          \A c \in BagToSet(calls') :
              (c.kind = "verify" /\ c.pc = "invoke" /\ c \notin BagToSet(calls)) =>
                  \E i \in 1..Len(mods) :
                      /\ mods[i].folder_name = ev'.id
                      /\ c.mod = mods[i]]_vars

\* ------------------------------------------------------------------- C14
\* C14: closing the workflow cancels no resolver call, and a call that
\* succeeds when no workflow is open, or when the open workflow is for another
\* package, still removes the key of the package it was started for from the
\* status map it finds and persists the new map.
C14_LateResultApplied ==
    [][/\ ev'.op = "closeUpdateModal" => calls' = calls
       /\ (/\ ev'.op \in {"verifyReturn", "forceReturn"}
           /\ ev'.out \in {"uptodate", "ok"}
           /\ ~showUpdateModal \/ updateModalMod.folder_name # ev'.id) =>
             /\ ev'.id \notin DOMAIN updates'
             /\ Without(updates, ev'.id, updates')
             /\ lsUpdates' = [set |-> TRUE, map |-> updates']]_vars

\* an Auto-Verify started for one package has succeeded and removed its key
\* while the workflow of another package was open
C14_Witness ==
    /\ ev.op = "verifyReturn" /\ ev.out = "uptodate"
    /\ showUpdateModal
    /\ updateModalMod.folder_name # ev.id
    /\ ev.id \in DOMAIN ev.pre
    /\ ev.id \notin DOMAIN updates
    /\ lsUpdates.map = updates

\* a Force-Override has succeeded and removed its key while no workflow was open
C14_WitnessClosed ==
    /\ ev.op = "forceReturn" /\ ev.out = "ok"
    /\ ~showUpdateModal
    /\ ev.id \in DOMAIN ev.pre
    /\ ev.id \notin DOMAIN updates
    /\ lsUpdates.map = updates

C16_WorkflowLocal ==
    [][ev'.op \in {"startUpdateProcess", "closeUpdateModal"} =>
          /\ UNCHANGED <<updates, lastUpdateCheck, lsUpdates, lsLastCheck>>
          /\ UNCHANGED <<stardewInfo, mods, disk>>
          /\ UNCHANGED <<settingsPending, scans, batches, calls, opens>>
          /\ ev'.op = "startUpdateProcess" =>
                /\ showUpdateModal'
                /\ updateModalMod' # NoMod
                /\ updateModalMod'.folder_name = ev'.id
                /\ updateModalInfo' = updates[ev'.id]
          /\ ev'.op = "closeUpdateModal" =>
                /\ ~showUpdateModal'
                /\ updateModalMod' = NoMod
                /\ updateModalInfo' = NoInfo]_vars

\* a workflow has been started while the workflow of another package was open
\* with a resolver call in flight
C16_Witness ==
    /\ ev.op = "startUpdateProcess"
    /\ isVerifying
    /\ \E c \in BagToSet(calls) : c.pc = "invoke" /\ c.mod.folder_name # ev.id
    /\ updateModalMod.folder_name = ev.id

\* a workflow has been closed while a resolver call was in flight
C16_WitnessClose ==
    /\ ev.op = "closeUpdateModal"
    /\ \E c \in BagToSet(calls) : c.pc = "invoke"
    /\ updateModalMod = NoMod

\* ------------------------------------------------------------------- C17
\* C17: every start of a workflow is for a package that has an entry in the
\* status map at that moment, with update_available true and a download
\* reference that is neither null nor empty; the snapshot is that entry.
C17_StartOnlyWithUpdate ==
    ev.op = "startUpdateProcess" =>
        /\ ev.id \in DOMAIN updates
        /\ updates[ev.id].update_available
        /\ updates[ev.id].download_url # NullStr
        /\ updates[ev.id].download_url # ""
        /\ updateModalInfo = updates[ev.id]

\* a workflow has been started for one package while the cached status of
\* another one had no update or no download reference
C17_Witness ==
    /\ ev.op = "startUpdateProcess"
    /\ ev.id \in DOMAIN updates
    /\ \E k \in DOMAIN updates \ {ev.id} :
          ~updates[k].update_available \/ updates[k].download_url \in {NullStr, ""}

\* ------------------------------------------------------------------- C18
\* C18: every key of the status map is the id of a package that exposes an
\* update-source key; a batch check that resolves installs only keys of
\* packages that had an update-source key in the store it was started on, and
\* no other step of a batch check adds a key.
C18_KeysWereEligible ==
    [][/\ \A k \in DOMAIN updates' : k \in Eligible(<<ModA("1.0"), ModB, ModC>>)
       /\ (ev'.op = "checkForUpdates" /\ ev'.out = "resolved") =>
             \E b \in BagToSet(batches) :
                 /\ batches' = BagDel(batches, b)
                 /\ DOMAIN updates' \subseteq Eligible(b.snap)
       /\ ~(ev'.op = "checkForUpdates" /\ ev'.out = "resolved") =>
             DOMAIN updates' \subseteq DOMAIN updates]_vars

\* a batch check over a store that also holds a package without update-source
\* key has resolved and written entries
C18_Witness ==
    /\ ev.op = "checkForUpdates" /\ ev.out = "resolved"
    /\ DOMAIN updates # {}
    /\ updates = ev.resp
    /\ \E i \in 1..Len(mods) : Len(mods[i].update_keys) = 0

\* ------------------------------------------------------------------- C19
\* C19: while a batch check runs, the progress total that is shown is the
\* number of packages with an update-source key in the store the running
\* check was started on.
C19_TotalIsEligible ==
    checkingUpdates =>
        \A b \in BagToSet(batches) :
            b.st # "rejected" => updateProgress.total = Len(Filter(b.snap))

\* ------------------------------------------------------------------- C20
\* the gate's condition, and the number of remote batch queries a step starts
C20_GateClosed ==
    /\ lastUpdateCheck # NoCheck
    /\ settings # NullStr
    /\ now - lastUpdateCheck < OneHour

\* C20, the parts that hold as stated: a click that is warned starts no
\* remote query and opens the warning; a confirmation closes the warning and
\* runs checkForUpdates once, which starts one remote query when the store
\* holds a package with an update-source key and none otherwise; every click
\* on Check Updates, also the one after a confirmation, is decided by the gate.
C20_Common ==
    /\ (ev'.op = "handleCheckUpdatesClick" /\ ev'.out = "warn") =>
          /\ batches' = batches
          /\ showApiWarning'
    /\ ev'.op = "proceedWithUpdateCheck" =>
          /\ showApiWarning
          /\ ~showApiWarning'
          /\ BagCardinality(batches') = BagCardinality(batches) +
                (IF \E i \in 1..Len(mods) : Len(mods[i].update_keys) > 0 THEN 1 ELSE 0)
    /\ ev'.op = "handleCheckUpdatesClick" => (ev'.out = "warn" <=> C20_GateClosed)

\* C20 as stated: while the warning is shown, no remote batch query is started
\* by anything but the confirmation.
C20_NoQueryUntilConfirm ==
    [][/\ C20_Common
       /\ (showApiWarning /\ BagCardinality(batches') > BagCardinality(batches)) =>
             ev'.op = "proceedWithUpdateCheck"]_vars

\* C20 amended: while the warning is shown, a remote batch query is started
\* only by the confirmation, or by a further click on Check Updates that the
\* gate evaluates again and lets pass.
C20_ConfirmOrPass ==
    [][/\ C20_Common
       /\ (showApiWarning /\ BagCardinality(batches') > BagCardinality(batches)) =>
             \/ ev'.op = "proceedWithUpdateCheck"
             \/ ev'.op = "handleCheckUpdatesClick" /\ ~C20_GateClosed]_vars

\* a confirmation has closed the warning and started the one remote query
\* that is running
C20_Witness ==
    /\ ev.op = "proceedWithUpdateCheck" /\ ev.out = "started"
    /\ ~showApiWarning
    /\ BagCardinality(batches) = 1
    /\ checkingUpdates

\* ------------------------------------------------------------------- C21
\* C21: when the manifest write of a Force-Override succeeds for a package
\* whose key is already gone from the status map (an earlier run has removed
\* it), the run goes on as a success (no error, refresh requested), and the
\* status map, the timestamp and both persisted slots stay what they were
\* after the first run; only the manifest is written again.
C21_SecondForceIsNoOp ==
    [][(ev'.op = "forceReturn" /\ ev'.out = "ok" /\ ev'.id \notin DOMAIN updates) =>
          /\ updates' = updates
          /\ lsUpdates' = lsUpdates
          /\ lastUpdateCheck' = lastUpdateCheck
          /\ lsLastCheck' = lsLastCheck
          /\ error' = error
          /\ verificationStatus' = "Manifest updated, refreshing mod list..."
          /\ RefreshCount' = RefreshCount + 1
          /\ \A i \in 1..Len(disk') :
                disk'[i].folder_name = ev'.id => disk'[i].version = "1.2"]_vars

\* a second Force-Override has succeeded for a package after the first one
\* had removed its key, refreshed the store and registered its timers
C21_Witness ==
    /\ ev.op = "forceReturn" /\ ev.out = "ok"
    /\ ev.id \notin DOMAIN ev.pre
    /\ ev.id \notin DOMAIN updates
    /\ lsUpdates = [set |-> TRUE, map |-> updates]
    /\ \E c \in BagToSet(calls) :
          /\ c.kind = "force" /\ c.mod.folder_name = ev.id
          /\ c.pc = "timers" /\ c.q = SuccessTimers
    /\ \E c \in BagToSet(calls) :
          c.kind = "force" /\ c.mod.folder_name = ev.id /\ c.pc = "refresh"


\* ------------------------------------------------------------------- C22
\* resolver runs that await their external call (single check or manifest write)
ExternalCallCount ==
    BagCardinality([c \in {x \in BagToSet(calls) : x.pc = "invoke"} |-> calls[c]])

\* C22: at most one external call of the resolver is in flight at any time,
\* and while a call started from the open workflow is in flight isVerifying
\* is true: no timer that fires right after the call was started (the call is
\* then in flight, and it is the open workflow's) leaves isVerifying false.
C22_SingleFlight ==
    [][/\ ExternalCallCount' <= 1
       /\ (/\ ev.op \in {"verifyModUpdate", "forceUpdateVersion"}
           /\ ev'.op = "timer" /\ ev'.out # "close") => isVerifying']_vars


\* ------------------------------------------------------------------- C23
\* C23: an open workflow is closed only by closeUpdateModal from the Cancel
\* button or from the delayed close of a successful run, and that delayed
\* close never closes a workflow that was opened after its run was started:
\* not the workflow of another package, and not a workflow that was opened in
\* the step before the timer fires.
C23_CloseOwnWorkflow ==
    [][/\ (showUpdateModal /\ ~showUpdateModal') =>
             \/ ev'.op = "closeUpdateModal"
             \/ ev'.op = "timer" /\ ev'.out = "close"
       /\ (ev'.op = "timer" /\ ev'.out = "close" /\ showUpdateModal) =>
             /\ updateModalMod.folder_name = ev'.id
             /\ ev.op # "startUpdateProcess"]_vars


\* ------------------------------------------------------------------- C24
\* batch checks that have not returned: their remote query is pending, or it
\* has answered and Promise.all still awaits the ticker
RunningBatchCount ==
    BagCardinality([b \in {x \in BagToSet(batches) : x.st # "rejected"} |-> batches[b]])

\* C24: at most one batch check is in flight: no step starts a remote batch
\* query while a batch check is still running.
C24_SingleBatch ==
    [][RunningBatchCount' > RunningBatchCount =>
          /\ RunningBatchCount = 0
          /\ RunningBatchCount' = 1]_vars


C25_WitnessFailed ==
    /\ ev.op = "open_url" /\ ev.out = "failed"
    /\ ModalShown
    /\ updateStep = 1


\* ------------------------------------------------------------------- C26
\* C26: a Force-Override run takes the target and the latest_version of the
\* snapshot the open workflow holds, which is the status that was cached when
\* the workflow was started and which no step of a batch check changes; when
\* the manifest write succeeds, that version is what the manifest of the
\* target holds, whatever the status map holds for the target by then.
C26_WritesSnapshotVersion ==
    [][/\ ev'.op = "startUpdateProcess" => updateModalInfo' = updates[ev'.id]
       /\ ev'.op \in {"handleCheckUpdatesClick", "ticker", "check_mod_updates",
                      "checkForUpdates"} =>
             UNCHANGED <<updateModalMod, updateModalInfo, calls>>
       /\ ev'.op = "forceUpdateVersion" =>
             /\ ev'.id = updateModalMod.folder_name
             /\ calls' = BagAdd(calls, Call("force", updateModalMod,
                                            updateModalInfo.latest_version, "invoke", <<>>))
       /\ (ev'.op = "forceReturn" /\ ev'.out = "ok") =>
             \E c \in BagToSet(calls) :
                 /\ c.kind = "force" /\ c.pc = "invoke"
                 /\ c.mod.folder_name = ev'.id
                 /\ calls' = BagAdd(BagDel(calls, c), [c EXCEPT !.pc = "refresh"])
                 /\ disk' = WithVersion(disk, ev'.id, c.ver)
                 /\ \A i \in 1..Len(disk') :
                       disk'[i].folder_name = ev'.id => disk'[i].version = c.ver]_vars

\* the manifest write has succeeded with the snapshot's version after a batch
\* check, resolved while the call was in flight, had replaced the target's
\* status by one with another latest_version
C26_Witness ==
    /\ ev.op = "forceReturn" /\ ev.out = "ok"
    /\ ev.id \in DOMAIN ev.pre
    /\ ev.pre[ev.id].latest_version = "1.0"
    /\ lastUpdateCheck = now
    /\ \E i \in 1..Len(disk) : disk[i].folder_name = ev.id /\ disk[i].version = "1.2"

\* the manifest write has succeeded after a batch check had removed the
\* target's status
C26_WitnessRemoved ==
    /\ ev.op = "forceReturn" /\ ev.out = "ok"
    /\ ev.pre = EmptyMap
    /\ lastUpdateCheck = now
    /\ \E i \in 1..Len(disk) : disk[i].folder_name = ev.id /\ disk[i].version = "1.2"


\* ------------------------------------------------------------------- C27
\* a resolver call has just returned for package id
C27_Returned(id, outs) ==
    /\ ev.op \in {"verifyReturn", "forceReturn"}
    /\ ev.out \in outs
    /\ ev.id = id

\* the step 3 buttons of the workflow of package id are enabled
C27_Step3Enabled(id) ==
    /\ ModalShown
    /\ updateModalMod.folder_name = id
    /\ updateStep = 3
    /\ ~isVerifying

\* after every return isVerifying is eventually false
C27_BackToIdle ==
    \A id \in {"a", "b"} :
        C27_Returned(id, {"uptodate", "ok", "outdated", "failed"}) ~> ~isVerifying

\* after a success the workflow is eventually closed
C27_SuccessCloses ==
    \A id \in {"a", "b"} : C27_Returned(id, {"uptodate", "ok"}) ~> ~showUpdateModal

\* C27: when the timers fire, after every return of a resolver call
\* isVerifying is eventually false; after a success the workflow is eventually
\* closed; after a failure in the open workflow of the target at step 3, the
\* step 3 buttons are eventually enabled again for that target, unless the
\* user closes the workflow or starts one.
C27_ResolverSettles ==
    \A id \in {"a", "b"} :
        /\ C27_Returned(id, {"uptodate", "ok", "outdated", "failed"}) ~> ~isVerifying
        /\ C27_Returned(id, {"uptodate", "ok"}) ~> ~showUpdateModal
        /\ (/\ C27_Returned(id, {"outdated", "failed"})
            /\ ModalShown /\ updateModalMod.folder_name = id /\ updateStep = 3)
              ~> \/ C27_Step3Enabled(id)
                 \/ ev.op \in {"closeUpdateModal", "startUpdateProcess"}


C28_WitnessResolver ==
    /\ ev.op = "verifyReturn" /\ ev.out = "uptodate"
    /\ ev.id \in DOMAIN ev.pre
    /\ ev.pre[ev.id].current_version = "1.2"
    /\ lastUpdateCheck = now
    /\ lsUpdates = [set |-> TRUE, map |-> updates]


====
